---- MODULE Spec2Model ----
\* Model of keysync's otrapps/util.py: the record merge engine
\* (check_and_set, merge_keys, merge_keydicts) and the PKCS8 and X509 key
\* codecs (ParsePkcs8, ParseX509 and the four exports).
\*
\* Python dicts are objects: a keydict maps a name to a REFERENCE to a key
\* dict, so the model keeps a heap of key dicts, and keydicts that map names
\* to heap references.
EXTENDS Integers, Sequences, FiniteSets, TLC

\* ------------------------------------------------------------------ bounds
\* field values are strings in the program: "1" .. ToString(MaxVal) here
MaxVal == 2

\* key parameters are sampled around the sizes of 1 .. MaxOctets octets
MaxOctets == 2

\* a malformed container has up to MaxExtra fields more than it should
MaxExtra == 1

\* byte strings converted to bit strings and back have up to MaxBytes octets
MaxBytes == 2

\* a secret keyring has up to MaxPackets packets
MaxPackets == 2

\* the key material of a packet is one of MaxSeed sets of numbers
MaxSeed == 2

Names == {"alice", "bob"}
Fields == {"name", "protocol"}
Vals == {ToString(i) : i \in 1..MaxVal}

\* the label check_and_set prints for a key dict without a 'name' field
Unknown == "(unknown)"

\* ----------------------------------------------------------------- helpers
EmptyDict == [x \in {} |-> 0]

Range(f) == {f[x] : x \in DOMAIN f}

\* every dict with keys in K and values in V
Dicts(K, V) == UNION {[D -> V] : D \in SUBSET K}

\* the orders in which a dict with the keys K can be iterated
Orders(K) == {s \in [1..Cardinality(K) -> K] : \A i, j \in 1..Cardinality(K) : s[i] = s[j] => i = j}

\* the items of dict d, in the iteration order ord (a sequence over a superset of its keys)
RECURSIVE ItemsIn(_, _)
ItemsIn(d, ord) ==
  IF ord = <<>> THEN <<>>
  ELSE IF Head(ord) \in DOMAIN d
       THEN << <<Head(ord), d[Head(ord)]>> >> \o ItemsIn(d, Tail(ord))
       ELSE ItemsIn(d, Tail(ord))

\* heap references. Addresses cannot be observed, only compared: the key dicts the
\* destination holds while no source is around are numbered by their names, and
\* the key dicts of a newly built source get the numbers after those.
NameIndex == CHOOSE idx \in [Names -> 1..Cardinality(Names)] : \A a, b \in Names : idx[a] = idx[b] => a = b
Refs == 1..(2 * Cardinality(Names))

VARIABLES
  heap,     \* reference -> key dict (field -> value) of every live key dict
  kd1,      \* the destination keydict: name -> reference
  kd2,      \* the source keydict (or key dict) merged last: name -> reference
  reports,  \* what the last operation printed: <<label, k, kept value, incoming value>>
  last,     \* the last operation and its arguments
  first,    \* name -> field -> the first value contributed for that field
  held      \* a source keydict the caller kept after its merge: [kd, was]

mergeVars == <<heap, kd1, kd2, reports, last, first, held>>

VARIABLES
  text,     \* the Base64 text of the key container at hand
  origin,   \* how that text came about: the export and its parameters, or its make-up
  result,   \* the outcome of the parse of that text: [op, err, msg, params]
  conv      \* a byte string given to BytesToBin and what BinToBytes made of the bits

codecVars == <<text, origin, result, conv>>

VARIABLES
  packets,  \* the packets of the secret keyring, in the order of the file
  keydict   \* what GPGProperties.parse returned: key id -> values, or NotParsed

gpgVars == <<packets, keydict>>

\* ------------------------------------------------------------ merge engine
check_and_set_overwrite(key, k, v) ==
  IF k \in DOMAIN key
  THEN IF key[k] # v
       THEN [key |-> [key EXCEPT ![k] = v],
             out |-> << <<IF "name" \in DOMAIN key THEN key["name"] ELSE Unknown, k, key[k], v>> >>]
       ELSE [key |-> key, out |-> <<>>]
  ELSE [key |-> (k :> v) @@ key, out |-> <<>>]

check_and_set_nocompare(key, k, v) ==
  IF k \in DOMAIN key
  THEN [key |-> key,
        out |-> << <<IF "name" \in DOMAIN key THEN key["name"] ELSE Unknown, k, key[k], v>> >>]
  ELSE [key |-> (k :> v) @@ key, out |-> <<>>]

\* check_and_set(key, k, v): the key dict afterwards and what was printed
check_and_set(key, k, v) ==
  IF k \in DOMAIN key
  THEN IF key[k] # v
       THEN [key |-> key,
             out |-> << <<IF "name" \in DOMAIN key THEN key["name"] ELSE Unknown, k, key[k], v>> >>]
       ELSE [key |-> key, out |-> <<>>]
  ELSE [key |-> (k :> v) @@ key, out |-> <<>>]

RECURSIVE merge_keys_items(_, _, _, _)

\* merge_keys giving up at the first conflict
merge_keys_items_raise(h, r1, items, out) ==
  IF items = <<>> THEN [heap |-> h, out |-> out]
  ELSE LET r == check_and_set(h[r1], Head(items)[1], Head(items)[2])
       IN IF r.out # <<>> THEN [heap |-> h, out |-> out \o r.out]
          ELSE merge_keys_items([h EXCEPT ![r1] = r.key], r1, Tail(items), out)

\* the loop of merge_keys over the items of key2 (a list built before the loop starts)
merge_keys_items(h, r1, items, out) ==
  IF items = <<>> THEN [heap |-> h, out |-> out]
  ELSE LET r == check_and_set(h[r1], Head(items)[1], Head(items)[2])
       IN merge_keys_items([h EXCEPT ![r1] = r.key], r1, Tail(items), out \o r.out)

\* merge_keys(key1, key2) on the key dicts at references r1 and r2
merge_keys(h, r1, r2, ford) == merge_keys_items(h, r1, ItemsIn(h[r2], ford), <<>>)

RECURSIVE merge_keydicts_items(_, _, _, _, _)

\* merge_keydicts replacing the record of a name the destination already has
merge_keydicts_items_replace(h, d1, items, ford, out) ==
  IF items = <<>> THEN [heap |-> h, kd1 |-> d1, out |-> out]
  ELSE merge_keydicts_items(h, (Head(items)[1] :> Head(items)[2]) @@ d1, Tail(items), ford, out)

\* merge_keydicts merging into the records it has and dropping new names
merge_keydicts_items_noinsert(h, d1, items, ford, out) ==
  IF items = <<>> THEN [heap |-> h, kd1 |-> d1, out |-> out]
  ELSE IF Head(items)[1] \in DOMAIN d1
       THEN LET r == merge_keys(h, d1[Head(items)[1]], Head(items)[2], ford)
            IN merge_keydicts_items(r.heap, d1, Tail(items), ford, out \o r.out)
       ELSE merge_keydicts_items(h, d1, Tail(items), ford, out)

\* the loop of merge_keydicts over the items of kd2
merge_keydicts_items(h, d1, items, ford, out) ==
  IF items = <<>> THEN [heap |-> h, kd1 |-> d1, out |-> out]
  ELSE LET name == Head(items)[1]
           key == Head(items)[2]
       IN IF name \in DOMAIN d1
          THEN LET r == merge_keys(h, d1[name], key, ford)
               IN merge_keydicts_items(r.heap, d1, Tail(items), ford, out \o r.out)
          ELSE merge_keydicts_items(h, (name :> key) @@ d1, Tail(items), ford, out)

merge_keydicts(h, d1, d2, nord, ford) == merge_keydicts_items(h, d1, ItemsIn(d2, nord), ford, <<>>)

\* ------------------------------------------------- state of the merge engine
\* references for the key dicts of a keydict with the names D that its caller builds
Alloc(D) == [n \in D |-> Cardinality(Names) + NameIndex[n]]

\* the heap once a caller has built a keydict with the contents c at the references m;
\* key dicts that neither the destination nor the new source refers to are gone
HeapWith(h, d1, m, c) ==
  [r \in Range(d1) \cup Range(m) |->
     IF r \in Range(m) THEN c[CHOOSE n \in DOMAIN m : m[n] = r] ELSE h[r]]

\* first-contribution bookkeeping: rec offers its fields for the record called name
Contribute(fst, name, rec) ==
  [fst EXCEPT ![name] = [f \in DOMAIN fst[name] \cup DOMAIN rec |->
                           IF f \in DOMAIN fst[name] THEN fst[name][f] ELSE rec[f]]]

RECURSIVE ContributeAll(_, _, _, _)
ContributeAll(fst, h, d2, names) ==
  IF names = {} THEN fst
  ELSE LET n == CHOOSE x \in names : TRUE
       IN ContributeAll(Contribute(fst, n, h[d2[n]]), h, d2, names \ {n})

Op(op, name, k, v, again) == [op |-> op, name |-> name, k |-> k, v |-> v, again |-> again]

\* the key dicts main() builds by hand: any fields, any values
KeyContents == Dicts(Fields, Vals)

\* the keydicts an application reader builds: any names, any key dicts
KeyDictContents == Dicts(Names, KeyContents)

\* the caller kept no source keydict
NoHeld == [kd |-> EmptyDict, was |-> EmptyDict]

\* the key dicts the caller still refers to, through the destination or through
\* a source keydict it kept
Live == [r \in Range(kd1) \cup Range(held.kd) |-> r]

InitWith(c) ==
  LET m == [n \in DOMAIN c |-> NameIndex[n]]
  IN /\ heap = HeapWith(EmptyDict, EmptyDict, m, c)
     /\ kd1 = m
     /\ kd2 = EmptyDict
     /\ reports = <<>>
     /\ last = Op("idle", "", "", "", FALSE)
     /\ first = [n \in Names |-> IF n \in DOMAIN c THEN c[n] ELSE EmptyDict]
     /\ held = NoHeld

\* the caller builds a key dict, to merge it into kd1[name] (key2, key3, ... in main)
BuildKey ==
  /\ last.op = "idle"
  /\ \E name \in DOMAIN kd1 : \E c \in KeyContents :
       \E m \in {Alloc({name})} :
         /\ heap' = HeapWith(heap, Live, m, (name :> c))
         /\ kd2' = m
         /\ last' = Op("build_key", name, "", "", FALSE)
         /\ UNCHANGED <<kd1, reports, first, held, codecVars, gpgVars>>

\* the caller builds a source keydict
BuildKeydict ==
  /\ last.op = "idle"
  /\ \E c \in KeyDictContents :
       \E m \in {Alloc(DOMAIN c)} :
         /\ heap' = HeapWith(heap, Live, m, c)
         /\ kd2' = m
         /\ last' = Op("build_keydict", "", "", "", FALSE)
         /\ UNCHANGED <<kd1, reports, first, held, codecVars, gpgVars>>

\* the caller is done with the source it built: its key dicts that the destination
\* does not hold are gone, and so is the printout; the key dicts the destination
\* holds are numbered by their names again
Release ==
  /\ last.op \in {"merge_keys", "merge_keydicts", "check_and_set", "merge_keys_self"}
  /\ kd1' = [n \in DOMAIN kd1 |-> NameIndex[n]]
  /\ heap' = [r \in {NameIndex[n] : n \in DOMAIN kd1} |->
                heap[kd1[CHOOSE n \in DOMAIN kd1 : NameIndex[n] = r]]]
  /\ kd2' = EmptyDict
  /\ reports' = <<>>
  /\ last' = Op("idle", "", "", "", FALSE)
  /\ held' = NoHeld
  /\ UNCHANGED <<first, codecVars, gpgVars>>

\* the caller keeps the source keydict it has just merged, to use it again
\* (keydict2 and its key3, key5 in main): kd2[name] is still the object that
\* merge_keydicts may have inserted into kd1. The key dicts of the destination
\* are numbered by their names again, those only the kept source holds after them.
\* The source kept is the first one of a run, merged into an empty destination.
Hold ==
  /\ last.op = "merge_keydicts"
  /\ held = NoHeld
  /\ kd2 # EmptyDict
  /\ kd1 = kd2
  /\ \E hk \in {[n \in DOMAIN kd2 |->
                   IF n \in DOMAIN kd1 /\ kd1[n] = kd2[n] THEN NameIndex[n]
                   ELSE 2 * Cardinality(Names) + NameIndex[n]]} :
       /\ kd1' = [n \in DOMAIN kd1 |-> NameIndex[n]]
       /\ held' = [kd |-> hk, was |-> [n \in DOMAIN kd2 |-> heap[kd2[n]]]]
       /\ heap' = [r \in {NameIndex[n] : n \in DOMAIN kd1} \cup Range(hk) |->
                     IF r <= Cardinality(Names)
                     THEN heap[kd1[CHOOSE n \in DOMAIN kd1 : NameIndex[n] = r]]
                     ELSE heap[kd2[CHOOSE n \in DOMAIN kd2 : hk[n] = r]]]
  /\ kd2' = EmptyDict
  /\ reports' = <<>>
  /\ last' = Op("idle", "", "", "", FALSE)
  /\ UNCHANGED <<first, codecVars, gpgVars>>

\* check_and_set(kd1[name], k, v), as main() calls it on a key dict it holds
CheckAndSet ==
  /\ last.op = "idle"
  /\ \E name \in DOMAIN kd1, k \in Fields, v \in Vals :
       \E r \in {check_and_set(heap[kd1[name]], k, v)} :
         /\ heap' = [heap EXCEPT ![kd1[name]] = r.key]
         /\ reports' = r.out
         /\ last' = Op("check_and_set", name, k, v, FALSE)
         /\ first' = Contribute(first, name, (k :> v))
         /\ UNCHANGED <<kd1, kd2, held, codecVars, gpgVars>>

\* merge_keys(kd1[name], key2) with the key dict key2 the caller built; a second
\* call right after the first repeats the merge (again)
MergeKeys ==
  /\ last.op \in {"build_key", "merge_keys"}
  /\ \E name \in DOMAIN kd2 :
       \E r \in {merge_keys(heap, kd1[name], kd2[name], ford) :
                   ford \in Orders(DOMAIN heap[kd2[name]])} :
         /\ heap' = r.heap
         /\ reports' = r.out
         /\ last' = Op("merge_keys", name, "", "", last.op = "merge_keys")
         /\ first' = Contribute(first, name, heap[kd2[name]])
         /\ UNCHANGED <<kd1, kd2, held, codecVars, gpgVars>>

\* merge_keys(R, R): source and destination are the same key dict
MergeKeysSelf ==
  /\ last.op = "idle"
  /\ \E name \in DOMAIN kd1 :
       \E r \in {merge_keys(heap, kd1[name], kd1[name], ford) :
                   ford \in Orders(DOMAIN heap[kd1[name]])} :
         /\ heap' = r.heap
         /\ reports' = r.out
         /\ last' = Op("merge_keys_self", name, "", "", FALSE)
         /\ first' = Contribute(first, name, heap[kd1[name]])
         /\ UNCHANGED <<kd1, kd2, held, codecVars, gpgVars>>

\* merge_keydicts(kd1, kd2) with the keydict kd2 the caller built; a second call
\* right after the first repeats the merge (again)
MergeKeydicts ==
  /\ last.op \in {"build_keydict", "merge_keydicts"}
  /\ \E r \in {merge_keydicts(heap, kd1, kd2, nord, ford) :
                 nord \in Orders(DOMAIN kd2), ford \in Orders(Fields)} :
       /\ heap' = r.heap
       /\ kd1' = r.kd1
       /\ reports' = r.out
       /\ last' = Op("merge_keydicts", "", "", "", last.op = "merge_keydicts")
       /\ first' = ContributeAll(first, heap, kd2, DOMAIN kd2)
       /\ UNCHANGED <<kd2, held, codecVars, gpgVars>>

vars == <<mergeVars, codecVars, gpgVars>>

\* ===================================================================== codecs
\* Byte strings are sequences of 0..255, text is a sequence of one-character
\* strings, and an ASN.1 value is a record [t, v]: its type and its contents.

RSA_OID == <<1, 2, 840, 113549, 1, 1, 1>>
RSA_PARAMS == <<"n", "e", "d", "p", "q", "dp", "dq", "invq">>
DSA_OID == <<1, 2, 840, 10040, 4, 1>>
DSA_PARAMS == <<"p", "q", "g">>
SHA1RSA_OID == <<1, 2, 840, 113549, 1, 1, 5>>

Integer(n) == [t |-> "int", v |-> n]
Null == [t |-> "null", v |-> 0]
ObjectIdentifier(arcs) == [t |-> "oid", v |-> arcs]
OctetString(bytes) == [t |-> "oct", v |-> bytes]
BitString(bits) == [t |-> "bits", v |-> bits]
Sequence(items) == [t |-> "seq", v |-> items]

\* ASN1Sequence(*vals)
ASN1Sequence(vals) == Sequence(vals)

RECURSIVE Pow(_, _)
Pow(b, n) == IF n = 0 THEN 1 ELSE b * Pow(b, n - 1)

RECURSIVE Concat(_)
Concat(ss) == IF ss = <<>> THEN <<>> ELSE Head(ss) \o Concat(Tail(ss))

\* --- DER, as pyasn1's encoder writes it
\* m >= 0 in len big-endian digits of the given base
RECURSIVE Digits(_, _, _)
Digits(m, base, len) ==
  IF len = 0 THEN <<>> ELSE Digits(m \div base, base, len - 1) \o <<m % base>>

RECURSIVE NumDigits(_, _)
NumDigits(m, base) == IF m < base THEN 1 ELSE 1 + NumDigits(m \div base, base)

\* the number of content octets of INTEGER n (two's complement, shortest form)
IntOctets(n) ==
  LET m == IF n >= 0 THEN n ELSE -n - 1
      len == NumDigits(m, 256)
  IN IF Digits(m, 256, len)[1] >= 128 THEN len + 1 ELSE len

DerLength(n) ==
  IF n < 128 THEN <<n>>
  ELSE IF n < 256 THEN <<129, n>>
  ELSE <<130, n \div 256, n % 256>>

DerTLV(tag, content) == <<tag>> \o DerLength(Len(content)) \o content

\* one arc of an OBJECT IDENTIFIER: base 128, every octet but the last flagged
OidArc(a) ==
  LET ds == Digits(a, 128, NumDigits(a, 128))
  IN [i \in 1..Len(ds) |-> IF i < Len(ds) THEN ds[i] + 128 ELSE ds[i]]

\* a bit string as octets: the bits, padded on the right to whole octets
RECURSIVE BitsToOctets(_)
BitsToOctets(bits) ==
  IF bits = <<>> THEN <<>>
  ELSE IF Len(bits) < 8 THEN BitsToOctets(bits \o <<0>>)
  ELSE <<bits[1] * 128 + bits[2] * 64 + bits[3] * 32 + bits[4] * 16
         + bits[5] * 8 + bits[6] * 4 + bits[7] * 2 + bits[8]>>
       \o BitsToOctets(SubSeq(bits, 9, Len(bits)))

RECURSIVE DerEncode(_)
DerEncode(x) ==
  CASE x.t = "int" ->
         LET len == IntOctets(x.v)
         IN DerTLV(2, Digits(IF x.v >= 0 THEN x.v ELSE x.v + Pow(256, len), 256, len))
    [] x.t = "bits" -> DerTLV(3, <<(8 - (Len(x.v) % 8)) % 8>> \o BitsToOctets(x.v))
    [] x.t = "oct" -> DerTLV(4, x.v)
    [] x.t = "null" -> DerTLV(5, <<>>)
    [] x.t = "oid" ->
         DerTLV(6, <<40 * x.v[1] + x.v[2]>>
                   \o Concat([i \in 1..(Len(x.v) - 2) |-> OidArc(x.v[i + 2])]))
    [] x.t = "seq" -> DerTLV(48, Concat([i \in 1..Len(x.v) |-> DerEncode(x.v[i])]))

\* --- DER, as pyasn1's decoder reads it
Fail(kind, msg) == [err |-> kind, msg |-> msg]
Failed(r) == r.err # "none"

RECURSIVE FromDigits(_, _)
FromDigits(ds, base) ==
  IF ds = <<>> THEN 0 ELSE FromDigits(SubSeq(ds, 1, Len(ds) - 1), base) * base + ds[Len(ds)]

\* the arcs in the octets bs, acc being the arc read so far
RECURSIVE OidArcs(_, _)
OidArcs(bs, acc) ==
  IF bs = <<>> THEN <<>>
  ELSE IF Head(bs) >= 128 THEN OidArcs(Tail(bs), acc * 128 + (Head(bs) - 128))
  ELSE <<acc * 128 + Head(bs)>> \o OidArcs(Tail(bs), 0)

RECURSIVE OctetsToBits(_)
OctetsToBits(bs) ==
  IF bs = <<>> THEN <<>> ELSE Digits(Head(bs), 2, 8) \o OctetsToBits(Tail(bs))

\* the header of the value at the front of bs: its tag, where its contents start
\* and how long they are
DerHeader(bs) ==
  IF Len(bs) < 2 THEN Fail("PyAsn1Error", "short octet stream")
  ELSE IF bs[2] < 128 THEN [err |-> "none", tag |-> bs[1], at |-> 3, len |-> bs[2]]
  ELSE IF bs[2] = 129 /\ Len(bs) >= 3 THEN [err |-> "none", tag |-> bs[1], at |-> 4, len |-> bs[3]]
  ELSE IF bs[2] = 130 /\ Len(bs) >= 4
       THEN [err |-> "none", tag |-> bs[1], at |-> 5, len |-> bs[3] * 256 + bs[4]]
  ELSE Fail("PyAsn1Error", "bad length")

RECURSIVE DerDecode(_)
RECURSIVE DerDecodeItems(_)

\* decoder.decode(bs): the first value in bs and the octets after it
DerDecode(bs) ==
  LET h == DerHeader(bs)
  IN IF Failed(h) THEN h
     ELSE IF Len(bs) < h.at + h.len - 1 THEN Fail("PyAsn1Error", "short octet stream")
     ELSE LET c == SubSeq(bs, h.at, h.at + h.len - 1)
              rest == SubSeq(bs, h.at + h.len, Len(bs))
              Ok(val) == [err |-> "none", val |-> val, rest |-> rest]
          IN CASE h.tag = 2 ->
                    IF c = <<>> THEN Fail("PyAsn1Error", "empty integer")
                    ELSE Ok(Integer(IF c[1] >= 128 THEN FromDigits(c, 256) - Pow(256, Len(c))
                                    ELSE FromDigits(c, 256)))
               [] h.tag = 3 ->
                    IF c = <<>> THEN Fail("PyAsn1Error", "empty bit string")
                    ELSE LET bits == OctetsToBits(Tail(c))
                         IN IF c[1] > 7 \/ c[1] > Len(bits) THEN Fail("PyAsn1Error", "bad bit string")
                            ELSE Ok(BitString(SubSeq(bits, 1, Len(bits) - c[1])))
               [] h.tag = 4 -> Ok(OctetString(c))
               [] h.tag = 5 ->
                    IF c = <<>> THEN Ok(Null) ELSE Fail("PyAsn1Error", "bad null")
               [] h.tag = 6 ->
                    IF c = <<>> \/ c[Len(c)] >= 128 THEN Fail("PyAsn1Error", "bad object identifier")
                    ELSE Ok(ObjectIdentifier(
                              (IF c[1] < 40 THEN <<0, c[1]>>
                               ELSE IF c[1] < 80 THEN <<1, c[1] - 40>>
                               ELSE <<2, c[1] - 80>>) \o OidArcs(Tail(c), 0)))
               [] h.tag = 48 ->
                    LET items == DerDecodeItems(c)
                    IN IF Failed(items) THEN items ELSE Ok(Sequence(items.vals))
               [] OTHER -> Fail("PyAsn1Error", "unknown tag")

\* the values that fill the octets bs, one after the other
DerDecodeItems(bs) ==
  IF bs = <<>> THEN [err |-> "none", vals |-> <<>>]
  ELSE LET r == DerDecode(bs)
       IN IF Failed(r) THEN r
          ELSE LET more == DerDecodeItems(r.rest)
               IN IF Failed(more) THEN more
                  ELSE [err |-> "none", vals |-> <<r.val>> \o more.vals]

\* --- Base64
B64Alphabet ==
  <<"A", "B", "C", "D", "E", "F", "G", "H", "I", "J", "K", "L", "M", "N", "O", "P",
    "Q", "R", "S", "T", "U", "V", "W", "X", "Y", "Z", "a", "b", "c", "d", "e", "f",
    "g", "h", "i", "j", "k", "l", "m", "n", "o", "p", "q", "r", "s", "t", "u", "v",
    "w", "x", "y", "z", "0", "1", "2", "3", "4", "5", "6", "7", "8", "9", "+", "/">>

B64Char(sextet) == B64Alphabet[sextet + 1]
B64Sextet(c) == (CHOOSE i \in 1..64 : B64Alphabet[i] = c) - 1
IsB64Char(c) == \E i \in 1..64 : B64Alphabet[i] = c

\* base64.b64encode
RECURSIVE b64encode(_)
b64encode(bs) ==
  IF bs = <<>> THEN <<>>
  ELSE IF Len(bs) = 1
       THEN <<B64Char(bs[1] \div 4), B64Char((bs[1] % 4) * 16), "=", "=">>
  ELSE IF Len(bs) = 2
       THEN <<B64Char(bs[1] \div 4), B64Char((bs[1] % 4) * 16 + bs[2] \div 16),
              B64Char((bs[2] % 16) * 4), "=">>
  ELSE <<B64Char(bs[1] \div 4), B64Char((bs[1] % 4) * 16 + bs[2] \div 16),
         B64Char((bs[2] % 16) * 4 + bs[3] \div 64), B64Char(bs[3] % 64)>>
       \o b64encode(SubSeq(bs, 4, Len(bs)))

\* base64.b64decode of padded text: [err, val]
RECURSIVE b64decode(_)
b64decode(cs) ==
  IF cs = <<>> THEN [err |-> "none", val |-> <<>>]
  ELSE IF Len(cs) < 4 \/ ~IsB64Char(cs[1]) \/ ~IsB64Char(cs[2])
       THEN Fail("TypeError", "Incorrect padding")
  ELSE LET a == B64Sextet(cs[1])
           b == B64Sextet(cs[2])
       IN IF cs[3] = "=" /\ cs[4] = "=" /\ Len(cs) = 4
          THEN [err |-> "none", val |-> <<a * 4 + b \div 16>>]
          ELSE IF ~IsB64Char(cs[3]) THEN Fail("TypeError", "Incorrect padding")
          ELSE IF cs[4] = "=" /\ Len(cs) = 4
               THEN [err |-> "none",
                     val |-> <<a * 4 + b \div 16, (b % 16) * 16 + B64Sextet(cs[3]) \div 4>>]
          ELSE IF ~IsB64Char(cs[4]) THEN Fail("TypeError", "Incorrect padding")
          ELSE LET more == b64decode(SubSeq(cs, 5, Len(cs)))
               IN IF Failed(more) THEN more
                  ELSE [err |-> "none",
                        val |-> <<a * 4 + b \div 16, (b % 16) * 16 + B64Sextet(cs[3]) \div 4,
                                  (B64Sextet(cs[3]) % 4) * 64 + B64Sextet(cs[4])>> \o more.val]

\* Encode(s)
Encode(s) == b64encode(s)

\* Decode(s): [err, val]
Decode(s) ==
  LET t == SelectSeq(s, LAMBDA c : c # " ")
      d == Len(t) % 4
  IN IF d = 1 THEN Fail("Base64DecodingError", "")
     ELSE IF d = 2 THEN b64decode(t \o <<"=", "=">>)
     ELSE IF d = 3 THEN b64decode(t \o <<"=">>)
     ELSE b64decode(t)

\* --- bit strings and byte strings
\* _PadByte with r zeros in front instead of (8 - r) % 8
PadByte_wrongcount(bits) == [i \in 1..(Len(bits) % 8) |-> "0"] \o bits

\* _PadByte(bits)
PadByte(bits) == [i \in 1..((8 - (Len(bits) % 8)) % 8) |-> "0"] \o bits

\* IntToBin(n)
RECURSIVE IntToBin(_)
IntToBin(n) ==
  IF n = 0 \/ n = 1 THEN <<ToString(n)>>
  ELSE IF n % 2 = 0 THEN IntToBin(n \div 2) \o <<"0">>
  ELSE IntToBin(n \div 2) \o <<"1">>

\* int(x, 2) for a string x of binary digits
RECURSIVE IntOfBin(_)
IntOfBin(x) ==
  IF x = <<>> THEN 0
  ELSE 2 * IntOfBin(SubSeq(x, 1, Len(x) - 1)) + (IF x[Len(x)] = "1" THEN 1 ELSE 0)

\* BinToBytes(bits)
BinToBytes(bits) ==
  LET padded == PadByte(bits)
  IN [i \in 1..(Len(padded) \div 8) |-> IntOfBin(SubSeq(padded, 8 * (i - 1) + 1, 8 * i))]

\* BytesToBin(bytes)
BytesToBin(bytes) == Concat([i \in 1..Len(bytes) |-> PadByte(IntToBin(bytes[i]))])

\* univ.BitString("'...'B"): the bits a quoted string of binary digits spells
BitStringOfText(cs) == BitString([i \in 1..(Len(cs) - 3) |-> IF cs[i + 1] = "1" THEN 1 ELSE 0])

\* BitString.prettyPrint(): the bits as a quoted string of binary digits, "'...'B"
PrettyPrint(x) ==
  <<"\"", "'">> \o [i \in 1..Len(x.v) |-> ToString(x.v[i])] \o <<"'", "B", "\"">>

\* --- the key codecs
\* ParseASN1Sequence(seq): the components, or the TypeError of len() on another type
ParseASN1Sequence(x) ==
  IF x.t = "seq" THEN [err |-> "none", val |-> x.v]
  ELSE Fail("TypeError", "not a sequence")

IsOid(x, arcs) == x.t = "oid" /\ x.v = arcs

\* the parameters a parse returns
Parsed(params) == [err |-> "none", msg |-> "", params |-> params]

\* ReadParams reading vals[i] instead of vals[i + skip]
ReadParams_noskip(names, vals, skip) ==
  LET bad == {i \in 1..Len(names) : i > Len(vals) \/ vals[i].t # "int"}
      i0 == CHOOSE i \in bad : \A j \in bad : i <= j
  IN IF bad = {} THEN [err |-> "none", msg |-> "",
                       params |-> [k \in Range(names) |->
                                    vals[CHOOSE i \in 1..Len(names) : names[i] = k].v]]
     ELSE IF i0 > Len(vals) THEN Fail("IndexError", "list index out of range")
     ELSE Fail("TypeError", "long()")

\* params[names[i]] = long(vals[i + skip]) for every i: the map, or the first error
ReadParams(names, vals, skip) ==
  LET bad == {i \in 1..Len(names) : i + skip > Len(vals) \/ vals[i + skip].t # "int"}
      i0 == CHOOSE i \in bad : \A j \in bad : i <= j
  IN IF bad = {} THEN Parsed([k \in Range(names) |->
                               vals[(CHOOSE i \in 1..Len(names) : names[i] = k) + skip].v])
     ELSE IF i0 + skip > Len(vals) THEN Fail("IndexError", "list index out of range")
     ELSE Fail("TypeError", "long()")

\* an arity test that lets a sequence with more than n fields pass
WrongArity_atleast(seq, n) == Len(seq) < n

\* len(seq) != n
WrongArity(seq, n) == Len(seq) # n

\* ParsePkcs8(pkcs8): [err, msg, params]
ParsePkcs8(pkcs8) ==
  LET raw == Decode(pkcs8) IN
  IF Failed(raw) THEN raw ELSE
  LET top == DerDecode(raw.val) IN
  IF Failed(top) THEN top ELSE
  LET outer == ParseASN1Sequence(top.val) IN
  IF Failed(outer) THEN outer ELSE
  LET seq == outer.val IN
  IF WrongArity(seq, 3) THEN Fail("KeyczarError", "Illegal PKCS8 String.") ELSE
  IF seq[1].t # "int" THEN Fail("TypeError", "int()") ELSE
  IF seq[1].v # 0 THEN Fail("KeyczarError", "Unrecognized PKCS8 Version") ELSE
  LET alg == ParseASN1Sequence(seq[2]) IN
  IF Failed(alg) THEN alg ELSE
  IF Len(alg.val) # 2 THEN Fail("ValueError", "unpack") ELSE
  LET oid == alg.val[1]
      alg_params == alg.val[2]
  IN
  IF seq[3].t # "oct" THEN Fail("TypeError", "decode") ELSE
  LET key == DerDecode(seq[3].v) IN
  IF Failed(key) THEN key ELSE
  IF IsOid(oid, RSA_OID)
  THEN LET keyseq == ParseASN1Sequence(key.val) IN
       IF Failed(keyseq) THEN keyseq ELSE
       IF keyseq.val = <<>> THEN Fail("IndexError", "list index out of range") ELSE
       IF keyseq.val[1].t # "int" THEN Fail("TypeError", "int()") ELSE
       IF keyseq.val[1].v # 0 THEN Fail("KeyczarError", "Unrecognized RSA Private Key Version")
       ELSE ReadParams(RSA_PARAMS, keyseq.val, 1)
  ELSE IF IsOid(oid, DSA_OID)
  THEN LET algseq == ParseASN1Sequence(alg_params) IN
       IF Failed(algseq) THEN algseq ELSE
       LET pqg == ReadParams(DSA_PARAMS, algseq.val, 0) IN
       IF Failed(pqg) THEN pqg ELSE
       IF key.val.t # "int" THEN Fail("TypeError", "long()")
       ELSE Parsed(("x" :> key.val.v) @@ pqg.params)
  ELSE Fail("KeyczarError", "Unrecognized AlgorithmIdentifier: not RSA/DSA")

\* ParseX509(x509): [err, msg, params]
ParseX509(x509) ==
  LET raw == Decode(x509) IN
  IF Failed(raw) THEN raw ELSE
  LET top == DerDecode(raw.val) IN
  IF Failed(top) THEN top ELSE
  LET outer == ParseASN1Sequence(top.val) IN
  IF Failed(outer) THEN outer ELSE
  LET seq == outer.val IN
  IF WrongArity(seq, 2) THEN Fail("KeyczarError", "Illegal X.509 String.") ELSE
  LET alg == ParseASN1Sequence(seq[1]) IN
  IF Failed(alg) THEN alg ELSE
  IF Len(alg.val) # 2 THEN Fail("ValueError", "unpack") ELSE
  LET oid == alg.val[1]
      alg_params == alg.val[2]
  IN
  IF seq[2].t # "bits" THEN Fail("ValueError", "int() with base 2") ELSE
  LET pretty == PrettyPrint(seq[2])
      binstring == SubSeq(pretty, 2, Len(pretty) - 2)
      pubkey == DerDecode(BinToBytes(SelectSeq(binstring, LAMBDA c : c # "'")))
  IN
  IF Failed(pubkey) THEN pubkey ELSE
  IF IsOid(oid, RSA_OID)
  THEN LET pubseq == ParseASN1Sequence(pubkey.val) IN
       IF Failed(pubseq) THEN pubseq ELSE
       IF \E i \in 1..Len(pubseq.val) : pubseq.val[i].t # "int" THEN Fail("TypeError", "long()") ELSE
       IF Len(pubseq.val) # 2 THEN Fail("ValueError", "unpack")
       ELSE Parsed(("n" :> pubseq.val[1].v) @@ ("e" :> pubseq.val[2].v))
  ELSE IF IsOid(oid, DSA_OID)
  THEN LET algseq == ParseASN1Sequence(alg_params) IN
       IF Failed(algseq) THEN algseq ELSE
       IF \E i \in 1..Len(algseq.val) : algseq.val[i].t # "int" THEN Fail("TypeError", "long()") ELSE
       LET pqg == ReadParams(DSA_PARAMS, algseq.val, 0) IN
       IF Failed(pqg) THEN pqg ELSE
       IF pubkey.val.t # "int" THEN Fail("TypeError", "long()")
       ELSE Parsed(("y" :> pubkey.val.v) @@ pqg.params)
  ELSE Fail("KeyczarError", "Unrecognized AlgorithmIdentifier: not RSA/DSA")

\* the text an export returns
Exported(txt) == [err |-> "none", msg |-> "", text |-> txt]

\* the first of names that params lacks: params[name] raises KeyError
Missing(names, params) ==
  LET bad == {i \in 1..Len(names) : names[i] \notin DOMAIN params}
  IN names[CHOOSE i \in bad : \A j \in bad : i <= j]

Has(names, params) == \A i \in 1..Len(names) : names[i] \in DOMAIN params

\* ExportRsaPkcs8(params): [err, msg, text]
ExportRsaPkcs8(params) ==
  IF ~Has(RSA_PARAMS, params) THEN Fail("KeyError", Missing(RSA_PARAMS, params)) ELSE
  LET oid == ASN1Sequence(<<ObjectIdentifier(RSA_OID), Null>>)
      key == Sequence(<<Integer(0)>> \o [i \in 1..Len(RSA_PARAMS) |-> Integer(params[RSA_PARAMS[i]])])
      octkey == DerEncode(key)
      seq == ASN1Sequence(<<Integer(0), oid, OctetString(octkey)>>)
  IN Exported(Encode(DerEncode(seq)))

\* ExportDsaPkcs8(params): [err, msg, text]
ExportDsaPkcs8(params) ==
  IF ~Has(DSA_PARAMS \o <<"x">>, params) THEN Fail("KeyError", Missing(DSA_PARAMS \o <<"x">>, params)) ELSE
  LET alg_params == Sequence([i \in 1..Len(DSA_PARAMS) |-> Integer(params[DSA_PARAMS[i]])])
      oid == ASN1Sequence(<<ObjectIdentifier(DSA_OID), alg_params>>)
      octkey == DerEncode(Integer(params["x"]))
      seq == ASN1Sequence(<<Integer(0), oid, OctetString(octkey)>>)
  IN Exported(Encode(DerEncode(seq)))

\* ExportRsaX509(params): [err, msg, text]
ExportRsaX509(params) ==
  IF ~Has(<<"n", "e">>, params) THEN Fail("KeyError", Missing(<<"n", "e">>, params)) ELSE
  LET oid == ASN1Sequence(<<ObjectIdentifier(RSA_OID), Null>>)
      key == ASN1Sequence(<<Integer(params["n"]), Integer(params["e"])>>)
      binkey == BytesToBin(DerEncode(key))
      pubkey == BitStringOfText(<<"'">> \o binkey \o <<"'", "B">>)
      seq == ASN1Sequence(<<oid, pubkey>>)
  IN Exported(Encode(DerEncode(seq)))

\* ExportDsaX509(params): [err, msg, text]
ExportDsaX509(params) ==
  IF ~Has(<<"p", "q", "g", "y">>, params) THEN Fail("KeyError", Missing(<<"p", "q", "g", "y">>, params)) ELSE
  LET alg_params == ASN1Sequence(<<Integer(params["p"]), Integer(params["q"]), Integer(params["g"])>>)
      oid == ASN1Sequence(<<ObjectIdentifier(DSA_OID), alg_params>>)
      binkey == BytesToBin(DerEncode(Integer(params["y"])))
      pubkey == BitStringOfText(<<"'">> \o binkey \o <<"'", "B">>)
      seq == ASN1Sequence(<<oid, pubkey>>)
  IN Exported(Encode(DerEncode(seq)))

\* ------------------------------------------------------ state of the codecs
NoResult == [op |-> "none", err |-> "none", msg |-> "", params |-> EmptyDict]

Outcome(op, r) ==
  [op |-> op, err |-> r.err, msg |-> r.msg,
   params |-> IF Failed(r) THEN EmptyDict ELSE r.params]

\* what is known of a container: who made it (by), from which parameters, with
\* which algorithm, how many top-level fields (outer), which version, how many
\* fields in the key SEQUENCE (inner: the RSA private key of a PKCS8 container or
\* the RSA public key of an X509 one) with which version in it, and whether the
\* DER in the key field is whole
Origin(by, params, alg, outer, version, inner, innerVersion, payload) ==
  [by |-> by, params |-> params, alg |-> alg, outer |-> outer, version |-> version,
   inner |-> inner, innerVersion |-> innerVersion, payload |-> payload]

NoOrigin == Origin("none", EmptyDict, "", 0, 0, 0, 0, "")

\* no byte string was converted yet
NoBytes == [op |-> "none", given |-> <<>>, back |-> <<>>]

CodecIdle ==
  /\ text = <<>>
  /\ origin = NoOrigin
  /\ result = NoResult
  /\ conv = NoBytes

MergeIdle ==
  /\ heap = EmptyDict
  /\ kd1 = EmptyDict
  /\ kd2 = EmptyDict
  /\ reports = <<>>
  /\ last = Op("idle", "", "", "", FALSE)
  /\ first = [n \in Names |-> EmptyDict]
  /\ held = NoHeld

\* key parameters: 0, 1 and the values where the DER length of an INTEGER changes
ParamVals ==
  {0, 1} \cup UNION {{Pow(2, 8 * k - 1) - 1, Pow(2, 8 * k - 1), Pow(2, 8 * k) - 1} : k \in 1..MaxOctets}

\* parameter maps with the given names: one value everywhere but in one place
ParamMaps(names) ==
  {[k \in Range(names) |-> IF k = names[hot] THEN v ELSE w] :
     hot \in 1..Len(names), v \in ParamVals, w \in ParamVals}

\* every parameter name of the four containers
AllParams == Range(RSA_PARAMS) \cup Range(DSA_PARAMS) \cup {"x", "y"}

\* maps that have not the given names: one name missing, or one more name
Misshapen(names) ==
  {[k \in Range(names) \ {gone} |-> v] : gone \in Range(names), v \in {1, 255}}
  \cup {[k \in Range(names) \cup {more} |-> v] : more \in AllParams \ Range(names), v \in {1, 255}}

\* the maps a caller hands to an export that reads the given names
ExportInputs(names) == ParamMaps(names) \cup Misshapen(names)

\* the text an export call leaves: none when it raised
TextOf(e) == IF Failed(e) THEN <<>> ELSE e.text

\* what is known of the container an export made from params
ExportOrigin(by, alg, params, e, outer, inner) ==
  Origin(by, params, alg, outer, 0, inner, 0, IF Failed(e) THEN e.err ELSE "der")

ExportRsaPkcs8Call ==
  /\ origin = NoOrigin
  /\ \E params \in ExportInputs(RSA_PARAMS) :
       \E e \in {ExportRsaPkcs8(params)} :
         /\ text' = TextOf(e)
         /\ origin' = ExportOrigin("ExportRsaPkcs8", "RSA", params, e, 3, 9)
  /\ UNCHANGED <<result, conv, mergeVars, gpgVars>>

ExportDsaPkcs8Call ==
  /\ origin = NoOrigin
  /\ \E params \in ExportInputs(DSA_PARAMS \o <<"x">>) :
       \E e \in {ExportDsaPkcs8(params)} :
         /\ text' = TextOf(e)
         /\ origin' = ExportOrigin("ExportDsaPkcs8", "DSA", params, e, 3, 0)
  /\ UNCHANGED <<result, conv, mergeVars, gpgVars>>

ExportRsaX509Call ==
  /\ origin = NoOrigin
  /\ \E params \in ExportInputs(<<"n", "e">>) :
       \E e \in {ExportRsaX509(params)} :
         /\ text' = TextOf(e)
         /\ origin' = ExportOrigin("ExportRsaX509", "RSA", params, e, 2, 2)
  /\ UNCHANGED <<result, conv, mergeVars, gpgVars>>

ExportDsaX509Call ==
  /\ origin = NoOrigin
  /\ \E params \in ExportInputs(DSA_PARAMS \o <<"y">>) :
       \E e \in {ExportDsaX509(params)} :
         /\ text' = TextOf(e)
         /\ origin' = ExportOrigin("ExportDsaX509", "DSA", params, e, 2, 0)
  /\ UNCHANGED <<result, conv, mergeVars, gpgVars>>

\* --- containers from other writers, well-formed or not
AlgOid(alg) ==
  CASE alg = "RSA" -> RSA_OID
    [] alg = "DSA" -> DSA_OID
    [] alg = "SHA1RSA" -> SHA1RSA_OID

AlgorithmIdentifier(alg) ==
  ASN1Sequence(<<ObjectIdentifier(AlgOid(alg)),
                 IF alg = "DSA" THEN ASN1Sequence(<<Integer(23), Integer(11), Integer(4)>>)
                 ELSE Null>>)

\* the DER of value x, whole or cut short by an octet
Payload(x, payload) ==
  IF payload = "der" THEN DerEncode(x)
  ELSE SubSeq(DerEncode(x), 1, Len(DerEncode(x)) - 1)

Extras == [i \in 1..MaxExtra |-> Null]

\* a PrivateKeyInfo-like container
Pkcs8Like(alg, outer, version, inner, innerVersion, payload) ==
  LET key == IF alg = "DSA" THEN Integer(7)
             ELSE Sequence(SubSeq(<<Integer(innerVersion)>>
                                    \o [i \in 1..(8 + MaxExtra) |-> Integer(100 + i)], 1, inner))
      fields == <<Integer(version), AlgorithmIdentifier(alg), OctetString(Payload(key, payload))>>
                \o Extras
  IN Encode(DerEncode(Sequence(SubSeq(fields, 1, outer))))

\* a SubjectPublicKeyInfo-like container
X509Like(alg, outer, inner, payload) ==
  LET key == IF alg = "DSA" THEN Integer(9)
             ELSE Sequence(SubSeq([i \in 1..(2 + MaxExtra) |-> Integer(100 + i)], 1, inner))
      fields == <<AlgorithmIdentifier(alg), BitString(OctetsToBits(Payload(key, payload)))>>
                \o Extras
  IN Encode(DerEncode(Sequence(SubSeq(fields, 1, outer))))

Algs == {"RSA", "DSA", "SHA1RSA"}

ReceivePkcs8 ==
  /\ origin = NoOrigin
  /\ \E alg \in Algs, outer \in 0..(3 + MaxExtra), version \in {0, 1},
        inner \in 0..(9 + MaxExtra), innerVersion \in {0, 1}, payload \in {"der", "cut"} :
       /\ alg = "DSA" => inner = 0 /\ innerVersion = 0
       /\ text' = Pkcs8Like(alg, outer, version, inner, innerVersion, payload)
       /\ origin' = Origin("pkcs8", EmptyDict, alg, outer, version, inner, innerVersion, payload)
  /\ UNCHANGED <<result, conv, mergeVars, gpgVars>>

ReceiveX509 ==
  /\ origin = NoOrigin
  /\ \E alg \in Algs, outer \in 0..(2 + MaxExtra), inner \in 0..(2 + MaxExtra),
        payload \in {"der", "cut"} :
       /\ alg = "DSA" => inner = 0
       /\ text' = X509Like(alg, outer, inner, payload)
       /\ origin' = Origin("x509", EmptyDict, alg, outer, 0, inner, 0, payload)
  /\ UNCHANGED <<result, conv, mergeVars, gpgVars>>

ParsePkcs8Call ==
  /\ text # <<>>
  /\ result = NoResult
  /\ result' = Outcome("ParsePkcs8", ParsePkcs8(text))
  /\ UNCHANGED <<text, origin, conv, mergeVars, gpgVars>>

ParseX509Call ==
  /\ text # <<>>
  /\ result = NoResult
  /\ result' = Outcome("ParseX509", ParseX509(text))
  /\ UNCHANGED <<text, origin, conv, mergeVars, gpgVars>>

\* --- the conversions between byte strings and bit strings, on their own
\* byte strings of up to MaxBytes octets, with zero octets in every place
ByteStrings == UNION {[1..n -> {0, 1, 127, 128, 255}] : n \in 0..MaxBytes}

BytesToBinCall ==
  /\ origin = NoOrigin
  /\ \E b \in ByteStrings :
       /\ text' = BytesToBin(b)
       /\ origin' = Origin("BytesToBin", EmptyDict, "", 0, 0, 0, 0, "")
       /\ conv' = [op |-> "BytesToBin", given |-> b, back |-> <<>>]
  /\ UNCHANGED <<result, mergeVars, gpgVars>>

BinToBytesCall ==
  /\ conv.op = "BytesToBin"
  /\ conv' = [conv EXCEPT !.op = "BinToBytes", !.back = BinToBytes(text)]
  /\ UNCHANGED <<text, origin, result, mergeVars, gpgVars>>

\* ============================================================ gpg.py
\* A packet of pgpdump: its class, its public-key algorithm, its key id and the
\* numbers of a DSA key. Each of the five numbers is told apart by its last digit.
PacketClasses == {"SecretSubkeyPacket", "SecretKeyPacket", "PublicSubkeyPacket", "UserIDPacket"}
AlgorithmTypes == {"dsa", "rsa"}
KeyIds == {"0A", "0B"}

Packet(class, alg, id, seed) ==
  [class |-> class, pub_algorithm_type |-> alg, key_id |-> id,
   prime |-> 10 * seed + 1, group_order |-> 10 * seed + 2, group_gen |-> 10 * seed + 3,
   key_value |-> 10 * seed + 4, exponent_x |-> 10 * seed + 5]

Packets ==
  {Packet(class, alg, id, seed) :
     class \in PacketClasses, alg \in AlgorithmTypes, id \in KeyIds, seed \in 1..MaxSeed}

\* list(data.packets()): the packets of a keyring
PacketLists == UNION {[1..n -> Packets] : n \in 0..MaxPackets}

\* parse was not called yet
NotParsed == [parsed |-> FALSE, keydict |-> EmptyDict]

\* the values parse takes from a packet
Values(packet) ==
  [p |-> packet.prime, q |-> packet.group_order, g |-> packet.group_gen,
   y |-> packet.key_value, x |-> packet.exponent_x]

\* the loop of parse that takes every secret subkey, whatever its algorithm
RECURSIVE parse_packets_anyalgorithm(_, _)
parse_packets_anyalgorithm(ps, kd) ==
  IF ps = <<>> THEN kd
  ELSE LET packet == Head(ps)
       IN IF packet.class = "SecretSubkeyPacket"
          THEN parse_packets_anyalgorithm(Tail(ps),
                 [id \in DOMAIN kd \cup {packet.key_id} |->
                    IF id = packet.key_id THEN Values(packet) ELSE kd[id]])
          ELSE parse_packets_anyalgorithm(Tail(ps), kd)

\* the loop of parse over the packets ps, kd being the keydict so far
RECURSIVE parse_packets(_, _)
parse_packets(ps, kd) ==
  IF ps = <<>> THEN kd
  ELSE LET packet == Head(ps)
       IN IF packet.class = "SecretSubkeyPacket" /\ packet.pub_algorithm_type = "dsa"
          THEN parse_packets(Tail(ps),
                 [id \in DOMAIN kd \cup {packet.key_id} |->
                    IF id = packet.key_id THEN Values(packet) ELSE kd[id]])
          ELSE parse_packets(Tail(ps), kd)

\* GPGProperties.parse(settingsdir), from the packets of the keyring on
parse(ps) == parse_packets(ps, EmptyDict)

\* no keyring was read
GpgIdle ==
  /\ packets = <<>>
  /\ keydict = NotParsed

\* GPGProperties.parse(settingsdir) on the keyring at hand
GPGProperties_parse ==
  /\ ~keydict.parsed
  /\ keydict' = [parsed |-> TRUE, keydict |-> parse(packets)]
  /\ UNCHANGED <<packets, mergeVars, codecVars>>

GpgInit ==
  /\ MergeIdle
  /\ CodecIdle
  /\ packets \in PacketLists
  /\ keydict = NotParsed

GpgNext == GPGProperties_parse

SpecGpg == GpgInit /\ [][GpgNext]_vars

MergeInit == (\E c \in KeyDictContents : InitWith(c)) /\ CodecIdle /\ GpgIdle

MergeNext ==
  \/ CheckAndSet
  \/ BuildKey
  \/ MergeKeys
  \/ MergeKeysSelf
  \/ BuildKeydict
  \/ MergeKeydicts
  \/ Hold
  \/ Release

Init == MergeInit

Next == MergeNext

Spec == Init /\ [][Next]_vars

CodecInit == MergeIdle /\ CodecIdle /\ GpgIdle

CodecNext ==
  \/ ExportRsaPkcs8Call
  \/ ExportDsaPkcs8Call
  \/ ExportRsaX509Call
  \/ ExportDsaX509Call
  \/ ReceivePkcs8
  \/ ReceiveX509
  \/ ParsePkcs8Call
  \/ ParseX509Call
  \/ BytesToBinCall
  \/ BinToBytesCall

SpecCodec == CodecInit /\ [][CodecNext]_vars

\* ------------------------------------------------------- merge properties
\* the fields on which key dict src contradicts key dict dst
Differing(dst, src) == {f \in DOMAIN dst \cap DOMAIN src : dst[f] # src[f]}

\* dst with the fields of src it lacked
UnionFirst(dst, src) ==
  [f \in DOMAIN dst \cup DOMAIN src |-> IF f \in DOMAIN dst THEN dst[f] ELSE src[f]]

\* the conflicts in a printout, without the labels
Conflicts(out) == {<<out[i][2], out[i][3], out[i][4]>> : i \in DOMAIN out}

LabelOf(key) == IF "name" \in DOMAIN key THEN key["name"] ELSE Unknown

\* C1: check_and_set(key, k, v) is first-write-wins. k absent: key[k] becomes v.
\* k present with an equal value: nothing changes, nothing is reported. k present
\* with another value: key[k] keeps its value and one conflict (label, k, kept
\* value, incoming value) is reported. Every other field of key is unchanged.
C1_CheckAndSetFirstWriteWins ==
  [][last'.op = "check_and_set" =>
       LET old == heap[kd1[last'.name]]
           new == heap'[kd1'[last'.name]]
           k == last'.k
           v == last'.v
       IN /\ k \notin DOMAIN old => new[k] = v /\ reports' = <<>>
          /\ (k \in DOMAIN old /\ old[k] = v) => new = old /\ reports' = <<>>
          /\ (k \in DOMAIN old /\ old[k] # v) =>
               /\ new[k] = old[k]
               /\ reports' = << <<LabelOf(old), k, old[k], v>> >>
          /\ DOMAIN new = DOMAIN old \cup {k}
          /\ \A f \in DOMAIN old \ {k} : new[f] = old[f]]_vars

\* C1 witness: a check_and_set met a different stored value, which is still there
C1_Witness ==
  /\ last.op = "check_and_set"
  /\ Len(reports) = 1
  /\ heap[kd1[last.name]][last.k] # last.v
  /\ heap[kd1[last.name]][last.k] = reports[1][3]

\* C2: however source keydicts are folded into the destination, each (name, field)
\* holds the value of the first contributor that had the field (the destination's
\* initial value when it had one), and a field once set never changes its value.
C2_FirstSourceWins ==
  /\ [](\A n \in Names :
          /\ n \in DOMAIN kd1 => heap[kd1[n]] = first[n]
          /\ n \notin DOMAIN kd1 => first[n] = EmptyDict)
  /\ [][\A n \in DOMAIN kd1 :
          /\ n \in DOMAIN kd1'
          /\ \A f \in DOMAIN heap[kd1[n]] :
               /\ f \in DOMAIN heap'[kd1'[n]]
               /\ heap'[kd1'[n]][f] = heap[kd1[n]][f]]_vars

\* C2 witness: a later source disagreed with the value the destination already
\* held for a field, and the destination still has the earlier value
C2_Witness ==
  /\ last.op = "merge_keydicts"
  /\ reports # <<>>
  /\ \E n \in DOMAIN kd1 \cap DOMAIN kd2 :
       /\ "protocol" \in DOMAIN heap[kd2[n]]
       /\ heap[kd1[n]]["protocol"] # heap[kd2[n]]["protocol"]
       /\ heap[kd1[n]]["protocol"] = first[n]["protocol"]

\* the key dict a merge takes as its source for name n, as it is at the call
SourceKey(n) == heap[kd2[n]]

\* C3: merge_keydicts(kd1, kd2) merges kd2[name] field by field into kd1[name] for
\* the names kd1 has, inserts kd2[name] with exactly its fields for the names kd1
\* lacks, leaves the records under other names alone, and into an empty
\* destination yields exactly the source's records without any conflict.
C3_MergeKeydicts ==
  [][last'.op = "merge_keydicts" =>
       /\ DOMAIN kd1' = DOMAIN kd1 \cup DOMAIN kd2'
       /\ \A n \in DOMAIN kd2' :
            IF n \in DOMAIN kd1
            THEN /\ kd1'[n] = kd1[n]
                 /\ heap'[kd1'[n]] = UnionFirst(heap[kd1[n]], SourceKey(n))
            ELSE heap'[kd1'[n]] = SourceKey(n)
       /\ \A n \in DOMAIN kd1 \ DOMAIN kd2' :
            kd1'[n] = kd1[n] /\ heap'[kd1'[n]] = heap[kd1[n]]
       /\ kd1 = EmptyDict =>
            /\ reports' = <<>>
            /\ \A n \in DOMAIN kd1' : heap'[kd1'[n]] = heap'[kd2'[n]]]_vars

\* C3 witness: one merge_keydicts both merged into an existing record and
\* inserted a record under a new name
C3_Witness ==
  /\ last.op = "merge_keydicts"
  /\ ~last.again
  /\ DOMAIN kd2 = Names
  /\ kd1["alice"] # kd2["alice"]
  /\ kd1["bob"] = kd2["bob"]
  /\ DOMAIN heap[kd1["alice"]] = Fields
  /\ DOMAIN heap[kd2["alice"]] # Fields
  /\ heap[kd2["alice"]] # EmptyDict

C5_MergeIdempotent ==
  [][/\ last'.op = "merge_keys_self" => heap' = heap /\ reports' = <<>>
     /\ (last.op = "merge_keys" /\ last'.op = "merge_keys") =>
          /\ heap' = heap
          /\ Conflicts(reports') \subseteq Conflicts(reports)]_vars

\* C5 witness: the second merge of a key dict that contradicts the destination
C5_Witness ==
  /\ last.op = "merge_keys"
  /\ last.again
  /\ reports # <<>>
  /\ Differing(heap[kd1[last.name]], heap[kd2[last.name]]) # {}

\* C13: sources are never modified by merging. merge_keydicts(kd1, kd2) leaves
\* every record of kd2 with the fields and values it had before the call, and a
\* source the caller kept still has them after every later merge into the same
\* destination: a record inserted into kd1 is not shared with its source.
C13_SourcesNeverModified ==
  [][last'.op = "merge_keydicts" =>
       /\ \A n \in DOMAIN kd2 : heap'[kd2[n]] = heap[kd2[n]]
       /\ (\A n \in DOMAIN held.kd : heap[held.kd[n]] = held.was[n]) =>
            (\A n \in DOMAIN held.kd : heap'[held.kd[n]] = held.was[n])]_vars

\* ------------------------------------------------------ codec properties
\* the texts that are key containers: made by an export or by another writer
Exports == {"ExportRsaPkcs8", "ExportDsaPkcs8", "ExportRsaX509", "ExportDsaX509"}
Containers == Exports \cup {"pkcs8", "x509"}

\* the names each export reads from its parameter map
Shape(by) ==
  CASE by = "ExportRsaPkcs8" -> Range(RSA_PARAMS)
    [] by = "ExportDsaPkcs8" -> Range(DSA_PARAMS) \cup {"x"}
    [] by = "ExportRsaX509" -> {"n", "e"}
    [] by = "ExportDsaX509" -> Range(DSA_PARAMS) \cup {"y"}

\* the container at hand was exported from a map of the export's shape
FromValidMap(bys) == origin.by \in bys /\ DOMAIN origin.params = Shape(origin.by)

\* the error kinds of the parsers: every structural error the parsers raise is a
\* KeyczarError told apart by its message, and undecodable DER is pyasn1's error
MalformedEncoding(r) ==
  \/ /\ r.err = "KeyczarError"
     /\ r.msg \in {"Illegal PKCS8 String.", "Illegal X.509 String.",
                   "Unrecognized PKCS8 Version", "Unrecognized RSA Private Key Version"}
  \/ r.err = "PyAsn1Error"

UnsupportedAlgorithm(r) ==
  /\ r.err = "KeyczarError"
  /\ r.msg = "Unrecognized AlgorithmIdentifier: not RSA/DSA"

\* the object identifier a parser reads in a container it accepts: the first
\* component of the algorithm identifier, which is field number at
ContainerOid(container, at) ==
  ParseASN1Sequence(ParseASN1Sequence(DerDecode(Decode(container).val).val).val[at]).val[1].v

\* C6: PKCS8 round trip. ParsePkcs8 of the text ExportRsaPkcs8 or ExportDsaPkcs8
\* made from a map P of non-negative integers succeeds and returns a map equal
\* to P (same keys, same values), and the algorithm identifier it reads in the
\* container is that of the export.
C6_Pkcs8RoundTrip ==
  (result.op = "ParsePkcs8" /\ FromValidMap({"ExportRsaPkcs8", "ExportDsaPkcs8"})) =>
    /\ result.err = "none"
    /\ result.params = origin.params
    /\ ContainerOid(text, 2) = AlgOid(origin.alg)

C6_Witness ==
  /\ result.op = "ParsePkcs8"
  /\ origin.by = "ExportRsaPkcs8"
  /\ origin.params["n"] = 128
  /\ origin.params["invq"] = 255
  /\ result.err = "none"
  /\ result.params = origin.params

\* C7: X509 round trip. ParseX509 of the text ExportRsaX509 or ExportDsaX509
\* made from a map P succeeds and returns a map equal to P, the algorithm
\* identifier it reads is that of the export, and BinToBytes(BytesToBin(b)) = b
\* for every byte string b, zero octets in front included.
C7_X509RoundTrip ==
  /\ (result.op = "ParseX509" /\ FromValidMap({"ExportRsaX509", "ExportDsaX509"})) =>
       /\ result.err = "none"
       /\ result.params = origin.params
       /\ ContainerOid(text, 1) = AlgOid(origin.alg)
  /\ conv.op = "BinToBytes" => conv.back = conv.given

C7_Witness ==
  /\ result.op = "ParseX509"
  /\ origin.by = "ExportRsaX509"
  /\ origin.params["n"] = 32768
  /\ origin.params["e"] = 1
  /\ result.err = "none"
  /\ result.params = origin.params

\* the byte strings of C7 with zero octets in front do come back
C7_LeadingZeros ==
  /\ conv.op = "BinToBytes"
  /\ Len(conv.given) = MaxBytes
  /\ conv.given[1] = 0
  /\ conv.back = conv.given

\* C8: top-level arity. ParsePkcs8 of a container whose outer SEQUENCE has not
\* exactly 3 fields, and ParseX509 of one whose outer SEQUENCE has not exactly 2,
\* fails with the error for an illegal string and returns no map, whatever the
\* fields hold: no other check comes first.
C8_TopLevelArity ==
  /\ (result.op = "ParsePkcs8" /\ origin.by \in Containers /\ origin.outer # 3) =>
       /\ result.err = "KeyczarError"
       /\ result.msg = "Illegal PKCS8 String."
       /\ MalformedEncoding(result)
       /\ result.params = EmptyDict
  /\ (result.op = "ParseX509" /\ origin.by \in Containers /\ origin.outer # 2) =>
       /\ result.err = "KeyczarError"
       /\ result.msg = "Illegal X.509 String."
       /\ MalformedEncoding(result)
       /\ result.params = EmptyDict

C8_Witness ==
  /\ result.op = "ParsePkcs8"
  /\ origin.by = "pkcs8"
  /\ origin.outer = 4
  /\ origin.version = 1
  /\ origin.alg = "SHA1RSA"
  /\ origin.payload = "cut"
  /\ result.msg = "Illegal PKCS8 String."

\* C9: inner arity of RSA private keys. ParsePkcs8 of an otherwise well-formed
\* RSA container whose inner SEQUENCE has not exactly 9 fields fails with
\* MalformedEncoding and returns no map.
C9_InnerArityStrict ==
  (/\ result.op = "ParsePkcs8"
   /\ origin.by = "pkcs8"
   /\ origin.alg = "RSA"
   /\ origin.outer = 3
   /\ origin.version = 0
   /\ origin.payload = "der"
   /\ origin.inner # 9) =>
    /\ MalformedEncoding(result)
    /\ result.params = EmptyDict

\* C10: unsupported algorithm. ParsePkcs8 and ParseX509 of a container with the
\* right number of fields and version whose object identifier is neither RSA nor
\* DSA fail with UnsupportedAlgorithm and return no map, whatever the key field
\* holds.
C10_UnsupportedAlgorithm ==
  /\ (/\ result.op = "ParsePkcs8"
      /\ origin.by = "pkcs8"
      /\ origin.alg = "SHA1RSA"
      /\ origin.outer = 3
      /\ origin.version = 0) =>
       /\ UnsupportedAlgorithm(result)
       /\ result.params = EmptyDict
  /\ (/\ result.op = "ParseX509"
      /\ origin.by = "x509"
      /\ origin.alg = "SHA1RSA"
      /\ origin.outer = 2) =>
       /\ UnsupportedAlgorithm(result)
       /\ result.params = EmptyDict


\* an export refused its parameter map: params[name] raised KeyError, the only
\* error an export raises over the shape of its map
InvalidParameters(o) == o.payload = "KeyError"

\* C11: export shape validation. An export called with a map whose key set is
\* not exactly the names it reads (one missing, or one more) fails with
\* InvalidParameters and leaves no text.
C11_ExportShapeValidated ==
  (origin.by \in Exports /\ DOMAIN origin.params # Shape(origin.by)) =>
    /\ InvalidParameters(origin)
    /\ text = <<>>

\* ------------------------------------------------------- gpg properties
\* a packet parse takes: a secret subkey with the DSA algorithm
IsDsaSecretSubkey(packet) ==
  packet.class = "SecretSubkeyPacket" /\ packet.pub_algorithm_type = "dsa"

\* C12: OpenPGP extraction. The keydict parse returns has an entry for a key id
\* if and only if some packet is a DSA secret subkey with that key id; every
\* entry holds exactly p, q, g, y, x of such a packet (prime, group order,
\* generator, key value, secret exponent); the other packets contribute nothing
\* and alter no entry: without them the keydict is the same.
C12_GpgExtraction ==
  keydict.parsed =>
    /\ \A id \in KeyIds :
         id \in DOMAIN keydict.keydict <=>
           \E i \in 1..Len(packets) : IsDsaSecretSubkey(packets[i]) /\ packets[i].key_id = id
    /\ DOMAIN keydict.keydict \subseteq KeyIds
    /\ \A id \in DOMAIN keydict.keydict :
         /\ DOMAIN keydict.keydict[id] = {"p", "q", "g", "y", "x"}
         /\ \E i \in 1..Len(packets) :
              /\ IsDsaSecretSubkey(packets[i])
              /\ packets[i].key_id = id
              /\ keydict.keydict[id]["p"] = packets[i].prime
              /\ keydict.keydict[id]["q"] = packets[i].group_order
              /\ keydict.keydict[id]["g"] = packets[i].group_gen
              /\ keydict.keydict[id]["y"] = packets[i].key_value
              /\ keydict.keydict[id]["x"] = packets[i].exponent_x
    /\ keydict.keydict = parse(SelectSeq(packets, IsDsaSecretSubkey))

C12_Witness ==
  /\ keydict.parsed
  /\ Len(packets) = 2
  /\ IsDsaSecretSubkey(packets[1])
  /\ packets[1].key_id = "0A"
  /\ packets[2].class = "SecretSubkeyPacket"
  /\ packets[2].pub_algorithm_type = "rsa"
  /\ packets[2].key_id = "0A"
  /\ packets[2].prime # packets[1].prime
  /\ DOMAIN keydict.keydict = {"0A"}
  /\ keydict.keydict["0A"]["x"] = packets[1].exponent_x

TypeOK ==
  /\ DOMAIN kd1 \subseteq Names
  /\ DOMAIN kd2 \subseteq Names
  /\ Range(kd1) \cup Range(kd2) \subseteq DOMAIN heap
  /\ \A r \in DOMAIN heap : DOMAIN heap[r] \subseteq Fields
  /\ Range(held.kd) \subseteq DOMAIN heap
  /\ DOMAIN held.was = DOMAIN held.kd

====
